---- MODULE Spec2Model ----
(***************************************************************************)
(* configistate: the Config handle of src/src/configistate/config.py.      *)
(*                                                                         *)
(* A string is a sequence of tokens (chunks of characters); the tokens     *)
(* "file://", "/", ".", "~", " " and LF are the characters the code looks  *)
(* at.  A document is an ordered mapping (a Python dict): a sequence of    *)
(* entries [k, v].  A file system maps absolute paths to file contents;    *)
(* directories are the proper prefixes of the paths of the files.          *)
(***************************************************************************)
EXTENDS Integers, Sequences, FiniteSets, TLC

VARIABLES
    config_path,    \* self.config_path: a Path or None
    data,           \* self._data
    file_mappings,  \* self._file_mappings: config key -> Path, in insertion order
    fs,             \* the files on disk
    ret,            \* the last call: its arguments, result, exception, warnings
    resolved,       \* the config keys the last load read from their files
    touched,        \* the keys passed to set() since the last load
    snapshot,       \* the dict the data property returned last, as its caller holds it (or None)
    shared,         \* the top-level keys whose dict is one object in snapshot and data
    nops            \* the number of state-changing calls so far

vars == <<config_path, data, file_mappings, fs, ret, resolved, touched,
          snapshot, shared, nops>>

----------------------------------------------------------------------------
(* Strings *)

LF == "<LF>"
Whitespace == {" ", LF}

Range(s) == {s[i] : i \in 1..Len(s)}

IsPrefix(a, b) == Len(a) <= Len(b) /\ SubSeq(b, 1, Len(a)) = a

DropFirst(s, n) == SubSeq(s, n + 1, Len(s))

RECURSIVE Join(_, _)
Join(segs, sep) ==
    IF Len(segs) = 0 THEN <<>>
    ELSE IF Len(segs) = 1 THEN segs[1]
    ELSE segs[1] \o <<sep>> \o Join(Tail(segs), sep)

RECURSIVE Split(_, _)
Split(s, sep) ==
    IF sep \notin Range(s) THEN <<s>>
    ELSE LET i == CHOOSE j \in 1..Len(s) :
                    s[j] = sep /\ \A h \in 1..(j - 1) : s[h] # sep
         IN  <<SubSeq(s, 1, i - 1)>> \o Split(DropFirst(s, i), sep)

RECURSIVE LStrip(_)
LStrip(s) == IF Len(s) > 0 /\ Head(s) \in Whitespace THEN LStrip(Tail(s)) ELSE s

RECURSIVE RStrip(_)
RStrip(s) ==
    IF Len(s) > 0 /\ s[Len(s)] \in Whitespace
    THEN RStrip(SubSeq(s, 1, Len(s) - 1)) ELSE s

Strip(s) == RStrip(LStrip(s))

StartsWithFileScheme(s) == Len(s) > 0 /\ Head(s) = "file://"

----------------------------------------------------------------------------
(* Values of the document *)

None == [t |-> "none"]
StrV(s) == [t |-> "str", s |-> s]
IntV(n) == [t |-> "int", n |-> n]
BoolV(b) == [t |-> "bool", b |-> b]
DictV(d) == [t |-> "dict", d |-> d]
ListV(l) == [t |-> "list", l |-> l]

isdict(v) == v.t = "dict"
isstr(v) == v.t = "str"

EmptyDict == <<>>

HasKey(d, k) == \E i \in 1..Len(d) : d[i].k = k

Item(d, k) == d[CHOOSE i \in 1..Len(d) : d[i].k = k].v

\* d[k] = v: an existing key keeps its position, a new key goes last
SetItem(d, k, v) ==
    IF HasKey(d, k)
    THEN [i \in 1..Len(d) |-> IF d[i].k = k THEN [k |-> k, v |-> v] ELSE d[i]]
    ELSE Append(d, [k |-> k, v |-> v])

DictKeys(d) == [i \in 1..Len(d) |-> d[i].k]

IsNotDictEntry(e) == ~isdict(e.v)
IsDictEntry(e) == isdict(e.v)

----------------------------------------------------------------------------
(* Config.get, Config.set *)

RECURSIVE getLoop(_, _, _)
getLoop(current, keys, default) ==
    IF Len(keys) = 0 THEN current
    ELSE IF isdict(current) /\ HasKey(current.d, Head(keys))
         THEN getLoop(Item(current.d, Head(keys)), Tail(keys), default)
         ELSE default

\* a get that answers None, whatever the default
get_without_default(d, key, default) == getLoop(DictV(d), Split(key, "."), None)

get(d, key, default) == getLoop(DictV(d), Split(key, "."), default)

RECURSIVE setLoop(_, _, _)
setLoop(current, keys, value) ==
    IF Len(keys) = 1 THEN SetItem(current, keys[1], value)
    ELSE LET k == Head(keys)
             child == IF HasKey(current, k) /\ isdict(Item(current, k))
                      THEN Item(current, k).d
                      ELSE EmptyDict
         IN  SetItem(current, k, DictV(setLoop(child, Tail(keys), value)))

\* a set that stores the value under the whole dotted key
set_without_split(d, key, value) == setLoop(d, <<key>>, value)

set(d, key, value) == setLoop(d, Split(key, "."), value)

----------------------------------------------------------------------------
(* pathlib.Path: [abs, parts] *)

Cwd == <<>>
Home == <<"home", "u">>

IsPathPart(t) == t \notin {"/", "."}

Path(s) == [abs |-> Len(s) > 0 /\ Head(s) = "/", parts |-> SelectSeq(s, IsPathPart)]

PathStr(p) ==
    LET names == Join([i \in 1..Len(p.parts) |-> <<p.parts[i]>>], "/")
    IN  IF p.abs THEN <<"/">> \o names
        ELSE IF Len(p.parts) = 0 THEN <<".">> ELSE names

parent(p) ==
    IF Len(p.parts) = 0 THEN p
    ELSE [abs |-> p.abs, parts |-> SubSeq(p.parts, 1, Len(p.parts) - 1)]

is_absolute(p) == p.abs

PathJoin(a, b) == IF b.abs THEN b ELSE [abs |-> a.abs, parts |-> a.parts \o b.parts]

expanduser(p) ==
    IF ~p.abs /\ Len(p.parts) > 0 /\ Head(p.parts) = "~"
    THEN [abs |-> TRUE, parts |-> Home \o Tail(p.parts)]
    ELSE p

\* relative_to raises ValueError unless is_relative_to
is_relative_to(p, base) == p.abs = base.abs /\ IsPrefix(base.parts, p.parts)

relative_to(p, base) == [abs |-> FALSE, parts |-> DropFirst(p.parts, Len(base.parts))]

----------------------------------------------------------------------------
(* The file system: a function from the absolute paths of the files to    *)
(* their contents.                                                         *)

Text(s) == [kind |-> "text", s |-> s]
Toml(blocks) == [kind |-> "toml", blocks |-> blocks]

Abs(p) == IF p.abs THEN p.parts ELSE Cwd \o p.parts

IsFile(f, a) == a \in DOMAIN f

IsDirectory(f, a) ==
    \/ Len(a) = 0
    \/ \E x \in DOMAIN f : Len(x) > Len(a) /\ IsPrefix(a, x)

exists(f, p) == IsFile(f, Abs(p)) \/ IsDirectory(f, Abs(p))

\* Path.mkdir(parents=True, exist_ok=True): fails when a prefix is a file
CanMkdir(f, p) == \A i \in 1..Len(Abs(p)) : ~IsFile(f, SubSeq(Abs(p), 1, i))

\* open(p, "w") once the parent directory exists
CanOpenWrite(f, p) == ~IsDirectory(f, Abs(p))

CanOpenRead(f, p) == IsFile(f, Abs(p))

WriteFile(f, p, content) ==
    [x \in DOMAIN f \cup {Abs(p)} |-> IF x = Abs(p) THEN content ELSE f[x]]

----------------------------------------------------------------------------
(* str() of a value *)

EscapeToken(t) == IF t = LF THEN "\\n" ELSE t

RECURSIVE repr(_)
repr(v) ==
    CASE v.t = "str" -> <<"'">> \o [i \in 1..Len(v.s) |-> EscapeToken(v.s[i])] \o <<"'">>
      [] v.t = "int" -> <<ToString(v.n)>>
      [] v.t = "bool" -> IF v.b THEN <<"True">> ELSE <<"False">>
      [] v.t = "none" -> <<"None">>
      [] v.t = "dict" ->
            <<"{">>
            \o Join([i \in 1..Len(v.d) |->
                       repr(StrV(v.d[i].k)) \o <<":", " ">> \o repr(v.d[i].v)], ", ")
            \o <<"}">>
      [] v.t = "list" ->
            <<"[">> \o Join([i \in 1..Len(v.l) |-> repr(v.l[i])], ", ") \o <<"]">>

str(v) == IF isstr(v) THEN v.s ELSE repr(v)

----------------------------------------------------------------------------
(* The TOML text of a document: a sequence of blocks, a table header and   *)
(* the key/value lines under it (the root block has the empty header).     *)

IsDumpedScalar(e) == ~isdict(e.v) /\ e.v # None

Section(name, d) == [name |-> name, d |-> d]

Subsections(sec) ==
    LET subs == SelectSeq(sec.d, IsDictEntry)
    IN  [i \in 1..Len(subs) |-> Section(Append(sec.name, subs[i].k), subs[i].v.d)]

\* a section gets its header when it has lines of its own or is empty
SectionBlock(sec) ==
    LET lines == SelectSeq(sec.d, IsDumpedScalar)
    IN  IF Len(lines) > 0 \/ Len(SelectSeq(sec.d, IsDictEntry)) = 0
        THEN <<[hdr |-> sec.name, body |-> lines]>>
        ELSE <<>>

RECURSIVE Flatten(_)
Flatten(ss) == IF Len(ss) = 0 THEN <<>> ELSE Head(ss) \o Flatten(Tail(ss))

RECURSIVE dump_sections(_)
dump_sections(sections) ==
    IF Len(sections) = 0 THEN <<>>
    ELSE Flatten([i \in 1..Len(sections) |-> SectionBlock(sections[i])])
         \o dump_sections(Flatten([i \in 1..Len(sections) |-> Subsections(sections[i])]))

toml_dump(o) ==
    LET root == SelectSeq(o, IsDumpedScalar)
    IN  (IF Len(root) > 0 THEN <<[hdr |-> <<>>, body |-> root]>> ELSE <<>>)
        \o dump_sections(Subsections(Section(<<>>, o)))

\* the table at hdr, created with its parents where missing
RECURSIVE toml_table(_, _)
toml_table(d, hdr) ==
    IF Len(hdr) = 0 THEN d
    ELSE LET k == Head(hdr)
             child == IF HasKey(d, k) THEN Item(d, k).d ELSE EmptyDict
         IN  SetItem(d, k, DictV(toml_table(child, Tail(hdr))))

RECURSIVE toml_put(_, _, _)
toml_put(d, hdr, e) ==
    IF Len(hdr) = 0 THEN SetItem(d, e.k, e.v)
    ELSE SetItem(d, Head(hdr), DictV(toml_put(Item(d, Head(hdr)).d, Tail(hdr), e)))

RECURSIVE toml_block(_, _, _)
toml_block(d, hdr, body) ==
    IF Len(body) = 0 THEN d
    ELSE toml_block(toml_put(d, hdr, Head(body)), hdr, Tail(body))

RECURSIVE toml_load(_, _)
toml_load(blocks, d) ==
    IF Len(blocks) = 0 THEN d
    ELSE toml_load(Tail(blocks),
                   toml_block(toml_table(d, Head(blocks).hdr),
                              Head(blocks).hdr, Head(blocks).body))

----------------------------------------------------------------------------
(* Config._process_file_variables *)

Warning(text, p) == [text |-> text, path |-> p]

ReplaceAt(d, i, v) == [d EXCEPT ![i] = [k |-> d[i].k, v |-> v]]

\* st = [d, maps, warns]: the dict being walked, self._file_mappings and the
\* warnings printed so far; cp is self.config_path and f the file system
WalkState(d, maps, warns) == [d |-> d, maps |-> maps, warns |-> warns]

\* the walk of the nested dict st.d[i] is over: r is what it left
AfterNested(st, i, r) == WalkState(ReplaceAt(st.d, i, DictV(r.d)), r.maps, r.warns)

file_path_of(value, cp) ==
    LET file_path_str == DropFirst(value.s, 1)
    IN  IF ~is_absolute(expanduser(Path(file_path_str))) /\ cp # None
        THEN PathJoin(parent(cp), expanduser(Path(file_path_str)))
        ELSE expanduser(Path(file_path_str))

\* a walk that records only the keys whose file it could find
ReadFileVariableFound(st, i, config_key, file_path, f) ==
    IF exists(f, file_path) /\ CanOpenRead(f, file_path)
    THEN WalkState(ReplaceAt(st.d, i, StrV(Strip(f[Abs(file_path)].s))),
                   SetItem(st.maps, config_key, file_path), st.warns)
    ELSE WalkState(st.d, st.maps, Append(st.warns, Warning("File not found", file_path)))

\* st.d[i] is a file:// string naming file_path
ReadFileVariable(st, i, config_key, file_path, f) ==
    IF exists(f, file_path)
    THEN IF CanOpenRead(f, file_path)
         THEN WalkState(ReplaceAt(st.d, i, StrV(Strip(f[Abs(file_path)].s))),
                        SetItem(st.maps, config_key, file_path), st.warns)
         ELSE WalkState(st.d, SetItem(st.maps, config_key, file_path),
                        Append(st.warns, Warning("Could not read file", file_path)))
    ELSE WalkState(st.d, SetItem(st.maps, config_key, file_path),
                   Append(st.warns, Warning("File not found", file_path)))

RECURSIVE process_file_variables(_, _, _, _, _)
process_file_variables(st, i, key_path, cp, f) ==
    IF i > Len(st.d) THEN st
    ELSE
      LET key == st.d[i].k
          value == st.d[i].v
          current_key_path == Append(key_path, key)
      IN
      IF isdict(value)
      THEN process_file_variables(
               AfterNested(st, i,
                   process_file_variables(WalkState(value.d, st.maps, st.warns),
                                          1, current_key_path, cp, f)),
               i + 1, key_path, cp, f)
      ELSE IF isstr(value) /\ StartsWithFileScheme(value.s)
      THEN process_file_variables(
               ReadFileVariable(st, i, Join(current_key_path, "."),
                                file_path_of(value, cp), f),
               i + 1, key_path, cp, f)
      ELSE process_file_variables(st, i + 1, key_path, cp, f)

----------------------------------------------------------------------------
(* Config._save_file_variables, Config._prepare_data_for_save *)

\* acc = [fs, warns]: the file system and the warnings printed so far
WriteFileVariable(acc, file_path, current_value) ==
    IF current_value # None
    THEN IF CanMkdir(acc.fs, parent(file_path)) /\ CanOpenWrite(acc.fs, file_path)
         THEN [fs |-> WriteFile(acc.fs, file_path, Text(str(current_value))),
               warns |-> acc.warns]
         ELSE [fs |-> acc.fs,
               warns |-> Append(acc.warns,
                                Warning("Could not write to file", file_path))]
    ELSE acc

\* a loop that gives up at the first file it cannot write
RECURSIVE save_file_variables_until_failure(_, _, _)
save_file_variables_until_failure(maps, d, acc) ==
    IF Len(maps) = 0 THEN acc
    ELSE LET written == WriteFileVariable(acc, Head(maps).v, get(d, Head(maps).k, None))
         IN  IF Len(written.warns) > Len(acc.warns) THEN written
             ELSE save_file_variables_until_failure(Tail(maps), d, written)

RECURSIVE save_file_variables(_, _, _)
save_file_variables(maps, d, acc) ==
    IF Len(maps) = 0 THEN acc
    ELSE save_file_variables(Tail(maps), d,
             WriteFileVariable(acc, Head(maps).v, get(d, Head(maps).k, None)))

FileReference(file_path, cp) ==
    IF cp # None /\ is_absolute(file_path)
    THEN IF is_relative_to(file_path, parent(cp))
         THEN <<"file://">> \o PathStr(relative_to(file_path, parent(cp)))
         ELSE <<"file://">> \o PathStr(file_path)
    ELSE <<"file://">> \o PathStr(file_path)

\* navigate to the parent dictionary and restore the reference at final_key
RECURSIVE restore_reference(_, _, _)
restore_reference(current, keys, ref) ==
    IF Len(keys) = 1
    THEN IF HasKey(current, keys[1])
         THEN SetItem(current, keys[1], StrV(ref))
         ELSE current
    ELSE LET k == Head(keys)
         IN  IF HasKey(current, k) /\ isdict(Item(current, k))
             THEN SetItem(current, k,
                      DictV(restore_reference(Item(current, k).d, Tail(keys), ref)))
             ELSE current

RECURSIVE restore_references(_, _, _)
restore_references(save_data, maps, cp) ==
    IF Len(maps) = 0 THEN save_data
    ELSE restore_references(
             restore_reference(save_data, Split(Head(maps).k, "."),
                               FileReference(Head(maps).v, cp)),
             Tail(maps), cp)

\* the references are restored in a deep copy: self._data stays as it is
prepare_no_deepcopy(d, maps, cp) ==
    [save_data |-> restore_references(d, maps, cp),
     data |-> restore_references(d, maps, cp)]

prepare_data_for_save(d, maps, cp) ==
    [save_data |-> restore_references(d, maps, cp), data |-> d]

----------------------------------------------------------------------------
(* Config.list_variables *)

list_variables(d, section) ==
    IF Len(section) > 0
    THEN LET section_data == get(d, section, DictV(EmptyDict))
         IN  IF isdict(section_data) THEN DictKeys(section_data.d) ELSE <<>>
    ELSE DictKeys(SelectSeq(d, IsNotDictEntry))

----------------------------------------------------------------------------
(* The documents and files on disk at the start, and the arguments of the  *)
(* calls                                                                   *)

MaxOps == 4

Key(name) == <<name>>
Dotted(names) == Join([i \in 1..Len(names) |-> Key(names[i])], ".")
Entry(name, v) == [k |-> Key(name), v |-> v]
Block(names, body) == [hdr |-> [i \in 1..Len(names) |-> Key(names[i])], body |-> body]

AppToml == <<"/", "cfg", "/", "app.toml">>
RelAppToml == <<"cfg", "/", "app.toml">>
OtherToml == <<"/", "other", "/", "app.toml">>

KeyTxt == <<"cfg", "secrets", "key.txt">>
PwTxt == <<"home", "u", "pw.txt">>

KeyRef == StrV(<<"file://", "secrets", "/", "key.txt">>)
MissingRef == StrV(<<"file://", "secrets", "/", "missing.txt">>)
HomeRef == StrV(<<"file://", "~", "/", "pw.txt">>)
DirRef == StrV(<<"file://", "secrets">>)

\* top-level variables, an array, a reference that names the directory
\* secrets, a section with a nested section, and database.password kept in
\* secrets/key.txt beside the document
NestedDoc ==
    <<Block(<<>>, <<Entry("debug", BoolV(TRUE)), Entry("tags", ListV(<<KeyRef>>)),
                    Entry("cert", DirRef)>>),
      Block(<<"database">>, <<Entry("host", StrV(<<"localhost">>)),
                              Entry("password", KeyRef)>>),
      Block(<<"database", "pool">>, <<Entry("size", IntV(5))>>)>>

\* two keys kept in the same file, which does not exist yet, and one kept in
\* the home directory
SharedDoc ==
    <<Block(<<"database">>, <<Entry("password", MissingRef)>>),
      Block(<<"replica">>, <<Entry("password", MissingRef)>>),
      Block(<<"vault">>, <<Entry("token", HomeRef)>>)>>

Worlds ==
    {(<<"cfg", "app.toml">> :> Toml(NestedDoc)) @@ (KeyTxt :> Text(<<"abc", LF>>)),
     (<<"cfg", "app.toml">> :> Toml(SharedDoc)) @@ (PwTxt :> Text(<<" ", "s3cret", LF>>))}

LoadArgs == {AppToml, RelAppToml, OtherToml}
SaveArgs == {<<>>, OtherToml}
SetKeys == {Dotted(<<"database">>), Dotted(<<"database", "password">>),
            Dotted(<<"database", "password", "id">>)}
SetValues == {StrV(<<"xyz">>), IntV(5432)}
GetKeys == {Dotted(<<"database", "password", "id">>), Dotted(<<"database", "host">>)}
Defaults == {None, StrV(<<"fallback">>)}
Sections == {<<>>, Dotted(<<"database">>), Dotted(<<"database", "password">>)}
SnapshotKeys == {Dotted(<<"debug">>), Dotted(<<"database", "host">>)}
SnapshotValues == {StrV(<<"changed">>)}

----------------------------------------------------------------------------
(* The calls *)

Ret(op, arg, val, out, raised, warns) ==
    [op |-> op, arg |-> arg, val |-> val, out |-> out, raised |-> raised,
     warns |-> warns]

Init ==
    /\ config_path = None
    /\ data = EmptyDict
    /\ file_mappings = EmptyDict
    /\ fs \in Worlds
    /\ ret = Ret("init", <<>>, None, None, "", <<>>)
    /\ resolved = {}
    /\ touched = {}
    /\ snapshot = None
    /\ shared = {}
    /\ nops = 0

\* what load(path) leaves in a handle whose file system is f
Loaded(f, path) ==
    process_file_variables(
        WalkState(toml_load(f[Abs(path)].blocks, EmptyDict), EmptyDict, <<>>),
        1, <<>>, path, f)

LoadError(f, path) ==
    IF ~exists(f, path) THEN "FileNotFoundError"
    ELSE IF ~CanOpenRead(f, path) THEN "IsADirectoryError"
    ELSE IF f[Abs(path)].kind # "toml" THEN "TOMLDecodeError"
    ELSE ""

\* the load went through: r is what the walk of the parsed document left
LoadDone(arg, r) ==
    /\ data' = r.d
    /\ file_mappings' = r.maps
    /\ resolved' = {r.maps[i].k : i \in
                      {j \in 1..Len(r.maps) : CanOpenRead(fs, r.maps[j].v)}}
    /\ touched' = {}
    /\ shared' = {}
    /\ ret' = Ret("load", arg, None, None, "", r.warns)

LoadFrom(arg, path, err) ==
    /\ config_path' = path
    /\ IF err # ""
       THEN /\ ret' = Ret("load", arg, None, None, err, <<>>)
            /\ UNCHANGED <<data, file_mappings, resolved, touched, shared>>
       ELSE LoadDone(arg, Loaded(fs, path))

Load(arg) ==
    /\ nops < MaxOps
    /\ nops' = nops + 1
    /\ LoadFrom(arg, Path(arg), LoadError(fs, Path(arg)))
    /\ UNCHANGED <<fs, snapshot>>

\* the files of the reverse mapping are written (written = [fs, warns]) and
\* the data to save is prepared: the document is written to save_path
SaveTo(arg, save_path, written, prepared) ==
    /\ data' = prepared.data
    /\ IF CanOpenWrite(written.fs, save_path)
       THEN /\ fs' = WriteFile(written.fs, save_path,
                               Toml(toml_dump(prepared.save_data)))
            /\ config_path' = save_path
            /\ ret' = Ret("save", arg, None, None, "", written.warns)
       ELSE /\ fs' = written.fs
            /\ config_path' = config_path
            /\ ret' = Ret("save", arg, None, None, "IsADirectoryError",
                          written.warns)

SavePath(arg, save_path) ==
    IF save_path = None
    THEN /\ ret' = Ret("save", arg, None, None, "ValueError", <<>>)
         /\ UNCHANGED <<config_path, data, fs>>
    ELSE IF ~CanMkdir(fs, parent(save_path))
    THEN /\ ret' = Ret("save", arg, None, None, "FileExistsError", <<>>)
         /\ UNCHANGED <<config_path, data, fs>>
    ELSE SaveTo(arg, save_path,
                save_file_variables(file_mappings, data, [fs |-> fs, warns |-> <<>>]),
                prepare_data_for_save(data, file_mappings, config_path))

\* a save that falls back on a path of its own when none is recorded
save_path_or_fallback(arg, cp) ==
    IF Len(arg) > 0 THEN Path(arg) ELSE IF cp = None THEN Path(OtherToml) ELSE cp

\* Path(config_path) if config_path else self.config_path
save_path_of(arg, cp) == IF Len(arg) > 0 THEN Path(arg) ELSE cp

Save(arg) ==
    /\ nops < MaxOps
    /\ nops' = nops + 1
    /\ UNCHANGED <<file_mappings, resolved, touched, snapshot, shared>>
    /\ SavePath(arg, save_path_of(arg, config_path))

\* the assignment went into the dict under top-level key k of tree d: the
\* other tree (a dict value, or None) holds the same dict when k is shared,
\* and shows it too
Aliased(other, d, k, sh) ==
    IF k \in sh THEN DictV(SetItem(other.d, k, Item(d, k))) ELSE other

\* a top-level key bound anew is shared no longer
StillShared(sh, keys) == IF Len(keys) = 1 THEN sh \ {keys[1]} ELSE sh

Set(key, value) ==
    /\ nops < MaxOps
    /\ nops' = nops + 1
    /\ data' = set(data, key, value)
    /\ snapshot' = Aliased(snapshot, data', Head(Split(key, ".")), shared)
    /\ shared' = StillShared(shared, Split(key, "."))
    /\ touched' = touched \cup {key}
    /\ ret' = Ret("set", key, value, None, "", <<>>)
    /\ UNCHANGED <<config_path, file_mappings, fs, resolved>>

Get(key, default) ==
    /\ ret' = Ret("get", key, default, get(data, key, default), "", <<>>)
    /\ UNCHANGED <<config_path, data, file_mappings, fs, resolved, touched,
                   snapshot, shared, nops>>

ListVariables(section) ==
    /\ ret' = Ret("list_variables", section, None, list_variables(data, section), "", <<>>)
    /\ UNCHANGED <<config_path, data, file_mappings, fs, resolved, touched,
                   snapshot, shared, nops>>

\* self._data.copy(): a new top-level dict whose values are the objects of
\* self._data, so every nested dict is shared
SharedKeys(d) == {d[i].k : i \in {j \in 1..Len(d) : isdict(d[j].v)}}

Data ==
    /\ nops < MaxOps
    /\ nops' = nops + 1
    /\ snapshot' = DictV(data)
    /\ shared' = SharedKeys(data)
    /\ ret' = Ret("data", <<>>, None, DictV(data), "", <<>>)
    /\ UNCHANGED <<config_path, data, file_mappings, fs, resolved, touched>>

\* the caller assigns value at key in the dict the data property returned
MutateSnapshot(key, value) ==
    /\ nops < MaxOps
    /\ snapshot # None
    /\ isdict(getLoop(snapshot, SubSeq(Split(key, "."), 1, Len(Split(key, ".")) - 1),
                      None))
    /\ nops' = nops + 1
    /\ snapshot' = DictV(set(snapshot.d, key, value))
    /\ data' = Aliased(DictV(data), snapshot'.d, Head(Split(key, ".")),
                       StillShared(shared, Split(key, "."))).d
    /\ shared' = StillShared(shared, Split(key, "."))
    /\ ret' = Ret("mutate", key, value, None, "", <<>>)
    /\ UNCHANGED <<config_path, file_mappings, fs, resolved, touched>>

Next ==
    \/ \E arg \in LoadArgs : Load(arg)
    \/ \E arg \in SaveArgs : Save(arg)
    \/ \E key \in SetKeys, value \in SetValues : Set(key, value)
    \/ \E key \in GetKeys, default \in Defaults : Get(key, default)
    \/ \E section \in Sections : ListVariables(section)
    \/ Data
    \/ \E key \in SnapshotKeys, value \in SnapshotValues : MutateSnapshot(key, value)

Spec == Init /\ [][Next]_vars

----------------------------------------------------------------------------
(* What the claims speak of *)

Saved(r) == r.op = "save" /\ r.raised = ""

IsReference(v) == isstr(v) /\ StartsWithFileScheme(v.s)

\* the document in file path as written, its references not followed
SavedDocument(f, path) == toml_load(f[Abs(path)].blocks, EmptyDict)

\* get(p) on a fresh handle that loads path
FreshGet(f, path, p) == get(Loaded(f, path).d, p, None)

FileOf(maps, p) == Item(maps, p)

SameFile(f, g, a) ==
    /\ (a \in DOMAIN f) = (a \in DOMAIN g)
    /\ a \in DOMAIN f => f[a] = g[a]

\* the paths of the nodes of a tree, by a walk from the root
RECURSIVE TreePaths(_)
TreePaths(d) ==
    UNION {{<<d[i].k>>} \cup
           (IF isdict(d[i].v) THEN {<<d[i].k>> \o q : q \in TreePaths(d[i].v.d)}
            ELSE {}) : i \in 1..Len(d)}

\* keys is a path of tree current: every key but the last leads to a dict
\* that holds the next one
RECURSIVE HasPath(_, _)
HasPath(current, keys) ==
    IF Len(keys) = 1 THEN HasKey(current, keys[1])
    ELSE /\ HasKey(current, Head(keys))
         /\ isdict(Item(current, Head(keys)))
         /\ HasPath(Item(current, Head(keys)).d, Tail(keys))

ProbeKeys ==
    {Dotted(<<"database">>), Dotted(<<"database", "host">>),
     Dotted(<<"database", "password">>), Dotted(<<"database", "password", "id">>),
     Dotted(<<"database", "pool">>), Dotted(<<"database", "pool", "size">>),
     Dotted(<<"replica", "password">>), Dotted(<<"vault", "token">>),
     Dotted(<<"debug">>), Dotted(<<"tags">>), Dotted(<<"cert">>),
     Dotted(<<"absent">>)}

DbPassword == Dotted(<<"database", "password">>)
DbPasswordId == Dotted(<<"database", "password", "id">>)

----------------------------------------------------------------------------
\* C1: after a successful save to D, a fresh load of D answers get(p) as the
\* handle did before the save, for every dotted path p.
C1_RoundTrip ==
    [][Saved(ret') =>
         \A p \in ProbeKeys :
             FreshGet(fs', config_path', p) = get(data, p, None)]_vars

\* C2: set(p, v) on a key loaded from an existing file F, then save(): F holds
\* str(v), the saved document holds a file:// reference at p, and a fresh load
\* answers get(p) = v.
C2_WriteBack ==
    [][(/\ ret.op = "set"
        /\ ret.arg \in resolved
        /\ HasKey(file_mappings, ret.arg)
        /\ Saved(ret')
        /\ ret'.arg = <<>>)
       =>
         LET p == ret.arg
             v == ret.val
             F == Abs(FileOf(file_mappings, p))
         IN  /\ F \in DOMAIN fs'
             /\ fs'[F] = Text(str(v))
             /\ IsReference(get(SavedDocument(fs', config_path'), p, None))
             /\ FreshGet(fs', config_path', p) = v]_vars

\* C3: save leaves the file of a key that was loaded from it and never set()
\* as it was, and the saved document holds a file:// reference at that key.
C3_UntouchedFile ==
    [][Saved(ret') =>
         \A i \in 1..Len(file_mappings) :
             LET p == file_mappings[i].k
                 F == Abs(file_mappings[i].v)
             IN  (p \in resolved /\ p \notin touched) =>
                     /\ SameFile(fs, fs', F)
                     /\ IsReference(get(SavedDocument(fs', config_path'), p, None))]_vars

\* the reference the destination should hold for file F: relative to the
\* destination's directory when F lies under it, absolute otherwise
ExpectedReference(F, dest) ==
    LET dir == Abs(parent(dest))
    IN  IF IsPrefix(dir, F)
        THEN <<"file://">> \o PathStr([abs |-> FALSE, parts |-> DropFirst(F, Len(dir))])
        ELSE <<"file://">> \o PathStr([abs |-> TRUE, parts |-> F])

\* C4: on save to D every mapped leaf still in the tree is written as
\* file://<path>, the path relative to D's directory when the file lies under
\* it and absolute otherwise.
C4_ReferenceForm ==
    [][Saved(ret') =>
         \A i \in 1..Len(file_mappings) :
             LET p == file_mappings[i].k
                 F == Abs(file_mappings[i].v)
             IN  Split(p, ".") \in TreePaths(data) =>
                     get(SavedDocument(fs', config_path'), p, None)
                         = StrV(ExpectedReference(F, config_path'))]_vars

\* C5: a successful save leaves the document and the reverse mapping as they
\* were, so that get answers every path as before; the recorded path becomes
\* the destination.
C5_SaveKeepsLiveState ==
    [][Saved(ret') =>
         /\ \A p \in ProbeKeys : get(data', p, None) = get(data, p, None)
         /\ data' = data
         /\ file_mappings' = file_mappings
         /\ config_path' = (IF Len(ret'.arg) > 0 THEN Path(ret'.arg) ELSE config_path)]_vars

\* a save has written a reference where the handle still answers the value
C5_Witness ==
    /\ Saved(ret)
    /\ HasKey(file_mappings, DbPassword)
    /\ get(data, DbPassword, None) = StrV(<<"abc">>)
    /\ IsReference(get(SavedDocument(fs, config_path), DbPassword, None))

\* C6: after set(p, v), get(p) answers v, whatever the default.
C6_SetThenGet ==
    ret.op = "set" =>
        \A default \in Defaults : get(data, ret.arg, default) = ret.val

\* the set went through database.password, which held the string read at load
C6_Witness ==
    /\ ret.op = "set"
    /\ ret.arg = DbPasswordId
    /\ touched = {DbPasswordId}
    /\ DbPassword \in resolved
    /\ get(data, DbPasswordId, None) = ret.val

\* the probed keys, each with its sequence of keys
ProbePaths == {[key |-> p, keys |-> Split(p, ".")] : p \in ProbeKeys}

\* get on tree d answers default for every probed path that is not a path of d
AnswersDefault(d, default) ==
    \A q \in ProbePaths : ~HasPath(d, q.keys) => get(d, q.key, default) = default

\* C7: get raises nothing, answers the default when the path is not a path of
\* the tree, and changes neither the document nor the reverse mapping.
C7_GetDefault ==
    [][ret'.op = "get" =>
         /\ ret'.raised = ""
         /\ ~HasPath(data, Split(ret'.arg, ".")) => ret'.out = ret'.val
         /\ AnswersDefault(data, ret'.val)
         /\ data' = data
         /\ file_mappings' = file_mappings
         /\ fs' = fs]_vars

\* get answered the default on a path that runs through a string
C7_Witness ==
    /\ ret.op = "get"
    /\ ret.arg = DbPasswordId
    /\ isstr(get(data, DbPassword, None))
    /\ ret.val = StrV(<<"fallback">>)
    /\ ret.out = ret.val

\* C8: a second save right after a successful save writes the same document
\* to the destination, and leaves every mapped file as the first save did.
C8_SaveIdempotent ==
    [][(Saved(ret) /\ Saved(ret') /\ config_path' = config_path) =>
         /\ fs'[Abs(config_path')] = fs[Abs(config_path)]
         /\ \A i \in 1..Len(file_mappings) :
                SameFile(fs, fs', Abs(file_mappings[i].v))]_vars

\* the part of C9 about load (r the call, d, maps, f, cp, res the state after
\* it): a reference to a file that does not exist stays in the tree as it is,
\* with a warning and its entry in the reverse mapping
LoadKeepsReference(r, d, maps, f, cp, res) ==
    (r.op = "load" /\ r.raised = "") =>
        \A p \in ProbeKeys :
            (IsReference(get(SavedDocument(f, cp), p, None)) /\ p \notin res) =>
                /\ get(d, p, None) = get(SavedDocument(f, cp), p, None)
                /\ HasKey(maps, p)
                /\ \E j \in 1..Len(r.warns) : r.warns[j].path = FileOf(maps, p)

\* C9: a load whose reference at p names a file that does not exist succeeds,
\* get(p) is the reference itself, a warning is printed and p's entry is
\* recorded; set(p, v) then save() creates the file with contents v.
C9_MissingTarget ==
    [][/\ LoadKeepsReference(ret', data', file_mappings', fs', config_path', resolved')
       /\ (/\ ret.op = "set"
           /\ HasKey(file_mappings, ret.arg)
           /\ ret.arg \notin resolved
           /\ Saved(ret'))
          =>
            LET F == Abs(FileOf(file_mappings, ret.arg))
            IN  F \in DOMAIN fs' /\ fs'[F] = Text(str(ret.val))]_vars

\* the load half of C9 alone, which holds
LoadKeepsReferenceHolds ==
    LoadKeepsReference(ret, data, file_mappings, fs, config_path, resolved)

\* the keys of the addressed mapping whose values are not mappings
ExpectedVariables(d, section) ==
    IF Len(section) = 0 THEN DictKeys(SelectSeq(d, IsNotDictEntry))
    ELSE IF Split(section, ".") \in TreePaths(d) /\ isdict(get(d, section, None))
    THEN DictKeys(SelectSeq(get(d, section, None).d, IsNotDictEntry))
    ELSE <<>>

\* C10: list_variables(section) answers the keys of the section whose values
\* are not mappings, in order, and nothing for a section that is absent or not
\* a mapping; without a section, the top-level keys whose values are not mappings.
C10_ListVariables ==
    ret.op = "list_variables" => ret.out = ExpectedVariables(data, ret.arg)

\* C11: whatever the caller assigns in the dict the data property returned,
\* at any depth, get on the handle answers every path as before.
C11_SnapshotIndependent ==
    [][ret'.op = "mutate" =>
         \A p \in ProbeKeys : get(data', p, None) = get(data, p, None)]_vars

\* C12: save() without a path on a handle with no recorded path raises the
\* no-destination error, writes no file, and leaves the document, the reverse
\* mapping and the recorded path as they were.
C12_NoDestination ==
    [][(ret'.op = "save" /\ ret'.arg = <<>> /\ config_path = None) =>
         /\ ret'.raised = "ValueError"
         /\ fs' = fs
         /\ data' = data
         /\ file_mappings' = file_mappings
         /\ config_path' = None]_vars

\* the save was refused on a handle that holds values but was never loaded
C12_Witness ==
    /\ ret.op = "save"
    /\ ret.arg = <<>>
    /\ ret.raised = "ValueError"
    /\ config_path = None
    /\ get(data, DbPassword, None) = StrV(<<"xyz">>)

\* the key of entry i of the reverse mapping maps has a value in tree d, no
\* warning of warns names its file, and no later entry names that file
WritesFile(maps, i, d, warns) ==
    /\ get(d, maps[i].k, None) # None
    /\ \A j \in 1..Len(warns) : warns[j].path # maps[i].v
    /\ \A j \in (i + 1)..Len(maps) : Abs(maps[j].v) # Abs(maps[i].v)

\* p is a mapped key, or lies below one
UnderMappedKey(maps, p) ==
    \E i \in 1..Len(maps) : IsPrefix(Split(maps[i].k, "."), Split(p, "."))

\* the document written at path holds a reference at every mapped key that
\* has a value, and at every other probed path the value of the tree, unless
\* that is a section
DocumentWritten(f, path, d, maps) ==
    /\ Abs(path) \in DOMAIN f
    /\ f[Abs(path)].kind = "toml"
    /\ \A i \in 1..Len(maps) :
           get(d, maps[i].k, None) # None =>
               IsReference(get(SavedDocument(f, path), maps[i].k, None))
    /\ \A p \in ProbeKeys :
           \/ UnderMappedKey(maps, p)
           \/ isdict(get(d, p, None))
           \/ get(SavedDocument(f, path), p, None) = get(d, p, None)

CouldNotWrite(r) ==
    \E j \in 1..Len(r.warns) : r.warns[j].text = "Could not write to file"

\* C13: a save in which a mapped file could not be written, to a destination
\* that can be written, raises nothing: every mapped file that no warning
\* names holds the current value of its key, the document is written to the
\* destination and the recorded path is the destination.
C13_WriteFailureContained ==
    [][(/\ ret'.op = "save"
        /\ CouldNotWrite(ret')
        /\ CanOpenWrite(fs, save_path_of(ret'.arg, config_path)))
       =>
         /\ ret'.raised = ""
         /\ config_path' = save_path_of(ret'.arg, config_path)
         /\ DocumentWritten(fs', config_path', data, file_mappings)
         /\ \A i \in 1..Len(file_mappings) :
                WritesFile(file_mappings, i, data, ret'.warns) =>
                    /\ Abs(file_mappings[i].v) \in DOMAIN fs'
                    /\ fs'[Abs(file_mappings[i].v)]
                           = Text(str(get(data, file_mappings[i].k, None)))]_vars

\* cert names a directory and could not be written; database.password, the
\* entry after it, was set and its file holds the new value
C13_Witness ==
    /\ Saved(ret)
    /\ \E j \in 1..Len(ret.warns) :
           ret.warns[j] = Warning("Could not write to file", FileOf(file_mappings, Dotted(<<"cert">>)))
    /\ get(data, DbPassword, None) = StrV(<<"xyz">>)
    /\ fs[KeyTxt] = Text(<<"xyz">>)
    /\ config_path = Path(OtherToml)

\* entry i of the reverse mapping maps no longer resolves in tree d
Stale(maps, i, d) == ~HasPath(d, Split(maps[i].k, "."))

\* no entry of maps that resolves in d names the file of entry i
NoLiveEntryNames(maps, i, d) ==
    \A j \in 1..Len(maps) : Abs(maps[j].v) = Abs(maps[i].v) => Stale(maps, j, d)

\* the part of C14 about the save that meets a stale entry (r the call, f and
\* cp the files and recorded path after it): its file is left alone and the
\* document holds no reference at its key
StaleEntrySkipped(r, d, maps, f0, f, cp) ==
    Saved(r) =>
        \A i \in 1..Len(maps) :
            Stale(maps, i, d) =>
                /\ NoLiveEntryNames(maps, i, d) => SameFile(f0, f, Abs(maps[i].v))
                /\ ~IsReference(get(SavedDocument(f, cp), maps[i].k, None))

\* C14: a successful save skips every entry of the reverse mapping whose key
\* no longer resolves in the tree (its file is not written, the document
\* holds no reference at its key) and removes the entry from the reverse
\* mapping.
C14_StaleEntryRemoved ==
    [][/\ StaleEntrySkipped(ret', data, file_mappings, fs, fs', config_path')
       /\ Saved(ret') =>
             \A i \in 1..Len(file_mappings) :
                 Stale(file_mappings, i, data) =>
                     ~HasKey(file_mappings', file_mappings[i].k)]_vars

\* the skipping alone, which holds
StaleEntrySkippedHolds ==
    [][StaleEntrySkipped(ret', data, file_mappings, fs, fs', config_path')]_vars

\* the dotted paths of the string leaves of tree d that begin with file://,
\* by a walk through the dicts of d
ReferencePaths(d, paths) ==
    {Join(q, ".") : q \in {x \in paths : IsReference(getLoop(DictV(d), x, None))}}

MappedKeys(maps) == {maps[i].k : i \in 1..Len(maps)}

\* C15: after a successful load the keys of the reverse mapping are exactly
\* the dotted paths of the string leaves of the loaded document that begin
\* with file://, arrays not entered, whatever the handle held before.
C15_MappingRebuilt ==
    (ret.op = "load" /\ ret.raised = "") =>
        MappedKeys(file_mappings)
            = ReferencePaths(SavedDocument(fs, config_path),
                             TreePaths(SavedDocument(fs, config_path)))

\* the load followed a save of a tree in which database had been replaced:
\* the entry database.password of the first load is gone, cert's is there,
\* and the reference inside the array tags has no entry
C15_Witness ==
    /\ ret.op = "load"
    /\ ret.raised = ""
    /\ KeyTxt \in DOMAIN fs
    /\ ~isdict(get(data, Dotted(<<"database">>), None))
    /\ MappedKeys(file_mappings) = {Dotted(<<"cert">>)}
    /\ get(data, Dotted(<<"tags">>), None) = ListV(<<KeyRef>>)

\* C16: a load that raises the not-found error leaves the document, the
\* reverse mapping and the recorded path as they were.
C16_FailedLoadKeepsHandle ==
    [][(ret'.op = "load" /\ ret'.raised = "FileNotFoundError") =>
         /\ data' = data
         /\ file_mappings' = file_mappings
         /\ config_path' = config_path]_vars

====
